---- MODULE Spec2Model ----
(***************************************************************************)
(* The password-reset handlers of forgot_password/handlers/                *)
(* forgot_password.py: the lambda functions user:forgot-password and       *)
(* user:forgot-password:test, and TemplateMailSender.send which both call. *)
(*                                                                         *)
(* One invocation runs at a time (each request is handled independently).  *)
(* pc is the position inside the running handler.  Strings whose structure *)
(* matters (the url prefix, the reset link) are sequences of tokens, with  *)
(* "/" a token of its own, so that endswith('/') and [:-1] are computed.   *)
(***************************************************************************)
EXTENDS Integers, Sequences, FiniteSets, TLC

VARIABLES
    settings,        \* the settings object of register_op (read-only)
    smtp_settings,   \* the smtp_settings object of register_op (read-only)
    pc,              \* position of the running invocation
    op,              \* which lambda function is running
    args,            \* its arguments and the context's access_key_type
    env,             \* how the collaborators behave during this invocation
    connOpen,        \* the connection of "with conn() as c" is open
    user,            \* result of get_user_from_email
    now,             \* datetime.utcnow().timestamp(), in half seconds
    expire_at,       \* the expiry put in the link
    template_params, \* the template parameter dict
    sendCalls,       \* calls of mail_sender.send in this invocation
    send_args,       \* arguments of the running mail_sender.send
    text_template,   \* local text_template of send
    html_template,   \* local html_template of send
    fetched,         \* names asked of the template provider (get_template)
    rendered,        \* templates rendered, in order
    attempts,        \* calls of mailer.send_mail
    outbox,          \* messages the transport accepted
    logs,            \* log records written in this invocation, in order
    raised,          \* exception in flight out of mail_sender.send
    result,          \* what the caller of the lambda function sees
    last             \* summary of the previous forgot_password invocation

vars == <<settings, smtp_settings, pc, op, args, env, connOpen, user, now,
          expire_at, template_params, sendCalls, send_args, text_template,
          html_template, fetched, rendered, attempts, outbox, logs, raised,
          result, last>>

(***************************************************************************)
(* Bounds                                                                  *)
(***************************************************************************)
MaxLifetime == 2     \* reset_url_lifetime ranges over 1..MaxLifetime
MaxClockHalf == 3    \* the clock ranges over 0..MaxClockHalf half seconds

(***************************************************************************)
(* Python values                                                           *)
(***************************************************************************)
None == "None"                 \* None where a string may stand
Null == [null |-> TRUE]        \* None where an object may stand

\* Truth value of an optional string: None and '' are falsy.
Truthy(s) == s # None /\ s # ""

\* The Exception classes met here, by constructor arguments.
Exc(type, a) == [type |-> type, args |-> a]

\* str(ex) of an exception built with no or one argument.
PyStr(ex) == IF Len(ex.args) = 0 THEN "" ELSE ex.args[1]

\* round(x) of a non-negative x given in half units: to the nearest integer,
\* a tie going to the even one.
PyRound(h) ==
    IF h % 2 = 0 THEN h \div 2
    ELSE IF (h \div 2) % 2 = 0 THEN h \div 2 ELSE (h \div 2) + 1

Digits == <<"0", "1", "2", "3", "4", "5", "6", "7", "8", "9">>

RECURSIVE IntToStr(_)
\* '{}'.format(n) of a non-negative integer: its decimal digits.
IntToStr(n) ==
    IF n < 10 THEN <<Digits[n + 1]>>
    ELSE IntToStr(n \div 10) \o <<Digits[(n % 10) + 1]>>

\* s.endswith('/')
EndsWithSlash(s) == Len(s) > 0 /\ s[Len(s)] = "/"

\* s[:-1]
DropLast(s) == SubSeq(s, 1, Len(s) - 1)

(***************************************************************************)
(* Results seen by the caller                                              *)
(***************************************************************************)
Pending == [status |-> "pending"]
OK == [status |-> "OK"]
SkygearException(message, code) ==
    [status |-> "error", code |-> code, message |-> message]

(***************************************************************************)
(* Inputs                                                                  *)
(***************************************************************************)
Emails == {None, "", "a@x"}
KeyTypes == {None, "client", "master"}
TextOverrides == {None, "", "T"}
HtmlOverrides == {None, "H"}
Prefixes == {<<"https://x">>, <<"https://x", "/">>, <<"https://x", "/", "/">>}
Hosts == {None, "smtp.example.com"}
\* What the collaborators do during one invocation: nothing wrong, the
\* optional html file missing, or one of them raising.
Envs == {"ok", "no_html", "get_template_raises", "render_raises",
         "transport_raises"}

Settings ==
    [secure_match : BOOLEAN,
     url_prefix : Prefixes,
     reset_url_lifetime : 1..MaxLifetime,
     app_name : {"app"},
     sender : {"no-reply@x"},
     subject : {"Reset password"},
     reply_to : {None}]

(***************************************************************************)
(* Collaborators outside this file                                         *)
(***************************************************************************)
User(id, email) == [id |-> id, email |-> email]

\* user_util.get_user_from_email(c, email): no account, or the account found
\* by that email, whose stored email may be missing.
get_user_from_email(email) ==
    {Null, User("u1", email), User("u1", None)}

\* user_util.get_user_record(c, user_id)
get_user_record(user_id) == [record_type |-> "user", id |-> user_id]

\* user_util.generate_code(user, expire_at): a function of both.
generate_code(u, e) == <<"code-", u.id, "-">> \o IntToStr(e)

\* FileTemplate / StringTemplate objects.
FileTemplate(name, present) ==
    [kind |-> "File", name |-> name,
     content |-> IF present THEN name ELSE None]
StringTemplate(name, content) ==
    [kind |-> "String", name |-> name, content |-> content]
NoTemplate == [kind |-> "none", name |-> None, content |-> None]

\* template.render(**template_params)
Render(t, params) == [content |-> t.content, params |-> params]

\* template_provider.get_template(name)
ProviderTemplate(name, e) ==
    FileTemplate(name, ~(name = "reset_email_html" /\ e = "no_html"))

ConfigError == Exc("Exception", <<"mail server is not configured">>)
TemplateError == Exc("Exception", <<"template not found">>)
RenderError == Exc("UndefinedError", <<"'link' is undefined">>)
RenderNoneError == Exc("TypeError", <<"Can't compile non template nodes">>)
TransportError == Exc("SMTPException", <<>>)

(***************************************************************************)
(* Initial state                                                           *)
(***************************************************************************)
NoArgs == [email |-> None, text_template |-> None, html_template |-> None,
           access_key_type |-> None]
NoSendArgs == [email |-> None, text_template_string |-> None,
               html_template_string |-> None]

Init ==
    /\ settings \in Settings
    /\ smtp_settings \in [host : Hosts]
    /\ pc = "idle"
    /\ op = "none"
    /\ args = NoArgs
    /\ env = "ok"
    /\ connOpen = FALSE
    /\ user = Null
    /\ now = 0
    /\ expire_at = 0
    /\ template_params = Null
    /\ sendCalls = 0
    /\ send_args = NoSendArgs
    /\ text_template = NoTemplate
    /\ html_template = NoTemplate
    /\ fetched = {}
    /\ rendered = <<>>
    /\ attempts = 0
    /\ outbox = <<>>
    /\ logs = <<>>
    /\ raised = Null
    /\ result = Pending
    /\ last = Null

\* The locals of an invocation before it starts and after it has returned.
Fresh ==
    /\ user' = Null
    /\ now' = 0
    /\ expire_at' = 0
    /\ template_params' = Null
    /\ sendCalls' = 0
    /\ send_args' = NoSendArgs
    /\ text_template' = NoTemplate
    /\ html_template' = NoTemplate
    /\ fetched' = {}
    /\ rendered' = <<>>
    /\ attempts' = 0
    /\ outbox' = <<>>
    /\ logs' = <<>>
    /\ raised' = Null

config == <<settings, smtp_settings, last>>
call == <<op, args, env>>
fpLocals == <<user, now, expire_at, template_params>>
sendLocals == <<text_template, html_template, fetched, rendered, attempts,
                outbox>>

(***************************************************************************)
(* user:forgot-password                                                    *)
(***************************************************************************)

\* A bug: the check for a missing email is not made.
EmailMissing_Never(email) == FALSE

\* if email is None
EmailMissing(email) == email = None

\* A bug: the secure_match test is inverted.
NotFoundResult_Inverted(secure_match) ==
    IF secure_match
    THEN OK
    ELSE SkygearException("user_id must be set", "InvalidArgument")

\* if not user: what the not-found branch does, by settings.secure_match.
NotFoundResult(secure_match) ==
    IF ~secure_match
    THEN OK
    ELSE SkygearException("user_id must be set", "InvalidArgument")

\* A bug: only a None email counts as missing, '' passes.
UserEmailMissing_NoneOnly(u) == u.email = None

\* if not user.email
UserEmailMissing(u) == ~Truthy(u.email)

\* A bug: the exception's class name is sent instead of its message.
Reraised_ClassName(ex) == SkygearException(ex.type, "UnexpectedError")

\* SkygearException(str(ex), skyerror.UnexpectedError)
Reraised(ex) == SkygearException(PyStr(ex), "UnexpectedError")

\* forgot_password(email), up to entering "with conn() as c".
FP_Call(email, e) ==
    /\ pc = "idle"
    /\ op' = "forgot_password"
    /\ args' = [NoArgs EXCEPT !.email = email]
    /\ env' = e
    /\ IF EmailMissing(email)
       THEN /\ result' = SkygearException("email must be set",
                                          "InvalidArgument")
            /\ connOpen' = FALSE
            /\ pc' = "done"
       ELSE /\ result' = Pending
            /\ connOpen' = TRUE
            /\ pc' = "fp_lookup"
    /\ UNCHANGED <<config, fpLocals, sendLocals, sendCalls, send_args, logs,
                   raised>>

\* The account lookup and the checks on its result.  A return or a raise
\* leaves the with block, which closes the connection.
FP_Lookup ==
    /\ pc = "fp_lookup"
    /\ \E u \in get_user_from_email(args.email) :
        /\ user' = u
        /\ IF u = Null
           THEN /\ result' = NotFoundResult(settings.secure_match)
                /\ connOpen' = FALSE
                /\ pc' = "done"
           ELSE IF UserEmailMissing(u)
           THEN /\ result' = SkygearException("email must be set",
                                              "InvalidArgument")
                /\ connOpen' = FALSE
                /\ pc' = "done"
           ELSE /\ pc' = "fp_build"
                /\ UNCHANGED <<result, connOpen>>
    /\ UNCHANGED <<config, call, now, expire_at, template_params, sendLocals,
                   sendCalls, send_args, logs, raised>>

RECURSIVE StripPrefix_All(_)
\* A bug: every trailing slash is removed (rstrip('/')).
StripPrefix_All(p) ==
    IF EndsWithSlash(p) THEN StripPrefix_All(DropLast(p)) ELSE p

\* url_prefix with one trailing slash removed.
StripPrefix(p) == IF EndsWithSlash(p) THEN DropLast(p) ELSE p

\* '{0}/reset-password?code={1}&user_id={2}&expire_at={3}'.format(...)
ResetLink(prefix, code, user_id, e) ==
    prefix \o <<"/", "reset-password?code=">> \o code
           \o <<"&user_id=", user_id, "&expire_at=">> \o IntToStr(e)

\* The profile lookup, the token, the link and the template parameters.
FP_Build ==
    /\ pc = "fp_build"
    /\ \E h \in 0..MaxClockHalf :
        LET e == PyRound(h) + settings.reset_url_lifetime
            code == generate_code(user, e)
            url_prefix == StripPrefix(settings.url_prefix)
            link == ResetLink(url_prefix, code, user.id, e)
        IN /\ now' = h
           /\ expire_at' = e
           /\ template_params' =
                [appname |-> settings.app_name,
                 link |-> link,
                 url_prefix |-> url_prefix,
                 email |-> user.email,
                 user_id |-> user.id,
                 code |-> code,
                 user |-> user,
                 user_record |-> get_user_record(user.id)]
    /\ pc' = "fp_try"
    /\ UNCHANGED <<config, call, connOpen, user, sendLocals, sendCalls,
                   send_args, logs, raised, result>>

\* The call of mail_sender.send inside the try block.
FP_TrySend ==
    /\ pc = "fp_try"
    /\ sendCalls' = sendCalls + 1
    /\ send_args' = [email |-> user.email,
                     text_template_string |-> None,
                     html_template_string |-> None]
    /\ pc' = "send_host"
    /\ UNCHANGED <<config, call, connOpen, fpLocals, sendLocals, logs,
                   raised, result>>

\* except Exception as ex: logger.exception(...)
FP_Except ==
    /\ pc = "except"
    /\ op = "forgot_password"
    /\ logs' = Append(logs,
                      [level |-> "exception",
                       msg |-> "An error occurred sending reset password email to user.",
                       exc |-> raised])
    /\ pc' = "reraise"
    /\ UNCHANGED <<config, call, connOpen, fpLocals, sendLocals, sendCalls,
                   send_args, raised, result>>

\* raise SkygearException(str(ex), skyerror.UnexpectedError), out of the
\* with block.
FP_Reraise ==
    /\ pc = "reraise"
    /\ op = "forgot_password"
    /\ result' = Reraised(raised)
    /\ connOpen' = FALSE
    /\ pc' = "done"
    /\ UNCHANGED <<config, call, fpLocals, sendLocals, sendCalls, send_args,
                   logs, raised>>

\* return {'status': 'OK'}, out of the with block.
FP_Return ==
    /\ pc = "send_return"
    /\ op = "forgot_password"
    /\ result' = OK
    /\ connOpen' = FALSE
    /\ pc' = "done"
    /\ UNCHANGED <<config, call, fpLocals, sendLocals, sendCalls, send_args,
                   logs, raised>>

(***************************************************************************)
(* TemplateMailSender.send                                                 *)
(***************************************************************************)

\* A bug: the host is never found unconfigured.
HostUnconfigured_Never(host) == FALSE

\* self.smtp_settings.host is None
HostUnconfigured(host) == host = None

\* if self.smtp_settings.host is None: log and raise.
Send_CheckHost ==
    /\ pc = "send_host"
    /\ IF HostUnconfigured(smtp_settings.host)
       THEN /\ logs' = Append(logs,
                              [level |-> "error",
                               msg |-> "Mail server is not configured. Configure SMTP_HOST.",
                               exc |-> Null])
            /\ raised' = ConfigError
            /\ pc' = "except"
       ELSE /\ pc' = "send_templates"
            /\ UNCHANGED <<logs, raised>>
    /\ UNCHANGED <<config, call, connOpen, fpLocals, sendLocals, sendCalls,
                   send_args, result>>

\* The choice between the override strings and the provider's templates.
Send_Templates ==
    /\ pc = "send_templates"
    /\ IF Truthy(send_args.text_template_string)
       THEN /\ text_template' = StringTemplate("reset_email_text",
                                    send_args.text_template_string)
            /\ html_template' = StringTemplate("reset_email_html",
                                    send_args.html_template_string)
            /\ pc' = "send_mail"
            /\ UNCHANGED <<fetched, raised>>
       ELSE IF env = "get_template_raises"
       THEN /\ fetched' = fetched \cup {"reset_email_text"}
            /\ raised' = TemplateError
            /\ pc' = "except"
            /\ UNCHANGED <<text_template, html_template>>
       ELSE /\ fetched' = fetched \cup {"reset_email_text", "reset_email_html"}
            /\ text_template' = ProviderTemplate("reset_email_text", env)
            /\ html_template' = ProviderTemplate("reset_email_html", env)
            /\ pc' = "send_mail"
            /\ UNCHANGED raised
    /\ UNCHANGED <<config, call, connOpen, fpLocals, sendCalls, send_args,
                   rendered, attempts, outbox, logs, result>>

\* The message handed to mailer.send_mail.
Mail(sender, email, subject, text, html, reply_to) ==
    [sender |-> sender, to |-> email, subject |-> subject, text |-> text,
     html |-> html, reply_to |-> reply_to]

\* Both renders, then mailer.send_mail.  Rendering a StringTemplate built
\* from None either raises or yields an empty part.
Send_Mail ==
    /\ pc = "send_mail"
    /\ \/ /\ env = "render_raises"
          /\ rendered' = rendered \o <<text_template>>
          /\ raised' = RenderError
          /\ pc' = "except"
          /\ UNCHANGED <<attempts, outbox>>
       \/ /\ env # "render_raises"
          /\ html_template.kind = "String"
          /\ html_template.content = None
          /\ rendered' = rendered \o <<text_template, html_template>>
          /\ raised' = RenderNoneError
          /\ pc' = "except"
          /\ UNCHANGED <<attempts, outbox>>
       \/ /\ env # "render_raises"
          /\ rendered' = rendered \o <<text_template, html_template>>
          /\ attempts' = attempts + 1
          /\ IF env = "transport_raises"
             THEN /\ raised' = TransportError
                  /\ pc' = "except"
                  /\ UNCHANGED outbox
             ELSE /\ outbox' = Append(outbox,
                        Mail(settings.sender, send_args.email,
                             settings.subject,
                             Render(text_template, template_params),
                             Render(html_template, template_params),
                             settings.reply_to))
                  /\ pc' = "send_return"
                  /\ UNCHANGED raised
    /\ UNCHANGED <<config, call, connOpen, fpLocals, sendCalls, send_args,
                   text_template, html_template, fetched, logs, result>>

(***************************************************************************)
(* user:forgot-password:test                                               *)
(***************************************************************************)

\* A bug: an absent access_key_type passes.
MasterKeyMissing_AbsentPasses(key) == Truthy(key) /\ key # "master"

\* if not access_key_type or access_key_type != 'master'
MasterKeyMissing(key) == ~Truthy(key) \/ key # "master"

\* test_forgot_password_email(email, text_template, html_template), up to
\* the try block: the master key check and the dummy parameters.
Test_Call(key, email, text, html, e) ==
    /\ pc = "idle"
    /\ op' = "test_forgot_password_email"
    /\ args' = [email |-> email, text_template |-> text,
                html_template |-> html, access_key_type |-> key]
    /\ env' = e
    /\ IF MasterKeyMissing(key)
       THEN /\ result' = SkygearException("master key is required",
                                          "AccessKeyNotAccepted")
            /\ pc' = "done"
            /\ UNCHANGED template_params
       ELSE LET url_prefix == StripPrefix(settings.url_prefix)
                dummy_user == User("dummy-id", "dummy-user@example.com")
            IN /\ template_params' =
                    [appname |-> settings.app_name,
                     code |-> <<"dummy-reset-code">>,
                     url_prefix |-> url_prefix,
                     link |-> url_prefix
                              \o <<"/", "example-reset-password-link">>,
                     user_record |-> get_user_record("dummy-id"),
                     user |-> dummy_user,
                     email |-> dummy_user.email,
                     user_id |-> dummy_user.id]
               /\ result' = Pending
               /\ pc' = "test_try"
    /\ UNCHANGED <<config, connOpen, user, now, expire_at, sendLocals,
                   sendCalls, send_args, logs, raised>>

\* The call of mail_sender.send inside the try block.
Test_TrySend ==
    /\ pc = "test_try"
    /\ sendCalls' = sendCalls + 1
    /\ send_args' = [email |-> args.email,
                     text_template_string |-> args.text_template,
                     html_template_string |-> args.html_template]
    /\ pc' = "send_host"
    /\ UNCHANGED <<config, call, connOpen, fpLocals, sendLocals, logs,
                   raised, result>>

\* except Exception as ex: logger.exception(...)
Test_Except ==
    /\ pc = "except"
    /\ op = "test_forgot_password_email"
    /\ logs' = Append(logs,
                      [level |-> "exception",
                       msg |-> "An error occurred sending test reset password email to user.",
                       exc |-> raised])
    /\ pc' = "reraise"
    /\ UNCHANGED <<config, call, connOpen, fpLocals, sendLocals, sendCalls,
                   send_args, raised, result>>

\* raise SkygearException(str(ex), skyerror.UnexpectedError)
Test_Reraise ==
    /\ pc = "reraise"
    /\ op = "test_forgot_password_email"
    /\ result' = Reraised(raised)
    /\ pc' = "done"
    /\ UNCHANGED <<config, call, connOpen, fpLocals, sendLocals, sendCalls,
                   send_args, logs, raised>>

\* return {'status': 'OK'}
Test_Return ==
    /\ pc = "send_return"
    /\ op = "test_forgot_password_email"
    /\ result' = OK
    /\ pc' = "done"
    /\ UNCHANGED <<config, call, connOpen, fpLocals, sendLocals, sendCalls,
                   send_args, logs, raised>>

(***************************************************************************)
(* The lambda function has returned to the plugin transport.               *)
(***************************************************************************)
Summary ==
    [email |-> args.email, env |-> env, found |-> user # Null,
     result |-> result]

\* With keep, the invocation just ended is remembered for comparison with
\* the next one.
Finish(keep) ==
    /\ pc = "done"
    /\ last' = IF keep /\ op = "forgot_password" THEN Summary ELSE last
    /\ pc' = "idle"
    /\ op' = "none"
    /\ args' = NoArgs
    /\ env' = "ok"
    /\ result' = Pending
    /\ Fresh
    /\ UNCHANGED <<settings, smtp_settings, connOpen>>

Steps ==
    \/ \E email \in Emails, e \in Envs : FP_Call(email, e)
    \/ FP_Lookup
    \/ FP_Build
    \/ FP_TrySend
    \/ FP_Except
    \/ FP_Reraise
    \/ FP_Return
    \/ Send_CheckHost
    \/ Send_Templates
    \/ Send_Mail
    \/ \E key \in KeyTypes, email \in Emails, text \in TextOverrides,
          html \in HtmlOverrides, e \in Envs :
            Test_Call(key, email, text, html, e)
    \/ Test_TrySend
    \/ Test_Except
    \/ Test_Reraise
    \/ Test_Return

Next == Steps \/ Finish(FALSE)

Spec == Init /\ [][Next]_vars

\* The same program, with the previous forgot_password invocation remembered.
NextPair == Steps \/ Finish(TRUE)

SpecPair == Init /\ [][NextPair]_vars

(***************************************************************************)
(* Properties                                                              *)
(***************************************************************************)
FP == op = "forgot_password"
TestOp == op = "test_forgot_password_email"
IsInvalidArgument(r) == r.status = "error" /\ r.code = "InvalidArgument"
NothingSent ==
    sendCalls = 0 /\ fetched = {} /\ rendered = <<>> /\ attempts = 0
    /\ outbox = <<>>

\* C1: with secure_match off, a forgot_password whose lookup finds no account
\* ends with {status: OK}, and mail_sender.send was not called in it: no
\* template was resolved and nothing was transmitted.
C1_NotFoundReturnsOK ==
    (FP /\ pc = "done" /\ ~settings.secure_match /\ args.email # None
        /\ user = Null)
    => (result = OK /\ NothingSent)

C1_Witness ==
    /\ FP /\ pc = "done" /\ ~settings.secure_match
    /\ args.email = "a@x" /\ user = Null /\ result = OK

\* C3: forgot_password called with None or with the empty string ends with an
\* InvalidArgument error, and mail_sender.send was not called.
C3_EmptyEmailRejected ==
    (FP /\ pc = "done" /\ args.email \in {None, ""})
    => (IsInvalidArgument(result) /\ sendCalls = 0)

\* C4: test_forgot_password_email under an access_key_type that is absent or
\* not 'master' ends at once with AccessKeyNotAccepted: nothing else has been
\* done, whatever email and override templates were given.
C4_MasterKeyRequired ==
    (TestOp /\ args.access_key_type # "master")
    => /\ pc = "done"
       /\ result = SkygearException("master key is required",
                                    "AccessKeyNotAccepted")
       /\ template_params = Null
       /\ NothingSent
       /\ logs = <<>>

C4_Witness ==
    /\ TestOp /\ pc = "done" /\ args.access_key_type = None
    /\ args.text_template = "T" /\ args.html_template = "H"
    /\ result.status = "error"

\* C5: in forgot_password, a missing email, an account not found under
\* secure_match and a found account without a stored email each end with
\* InvalidArgument, and an InvalidArgument is raised before any side effect:
\* no link was built and mail_sender.send was not called.
C5_ValidationBeforeSideEffects ==
    (FP /\ pc = "done")
    => /\ (settings.secure_match /\ args.email # None /\ user = Null)
            => IsInvalidArgument(result)
       /\ (args.email = None \/ (user # Null /\ ~Truthy(user.email)))
            => IsInvalidArgument(result)
       /\ IsInvalidArgument(result)
            => (template_params = Null /\ NothingSent /\ logs = <<>>)

C5_Witness ==
    /\ FP /\ pc = "done" /\ settings.secure_match
    /\ args.email = "a@x" /\ user = Null /\ IsInvalidArgument(result)

\* The records logger.exception wrote for the exception in flight.
HandlerRecords ==
    {i \in 1..Len(logs) : logs[i].level = "exception" /\ logs[i].exc = raised}

SurfacesAsUnexpected ==
    result = SkygearException(PyStr(raised), "UnexpectedError")

\* C6 as stated: an exception raised inside send reaches the caller as
\* UnexpectedError with message str(ex), and exactly one log record has been
\* written for it.
C6_LoggedExactlyOnce ==
    (pc = "done" /\ raised # Null)
    => (SurfacesAsUnexpected /\ Len(logs) = 1)

\* C6 as amended: in both operations an exception raised inside send reaches
\* the caller as UnexpectedError with message str(ex); the handler writes
\* exactly one record for it, before the re-raise; send's own "mail server is
\* not configured" error has one more record, written by send before it
\* raised; none is swallowed into {status: OK}.
C6_SendFailureSurfaces ==
    /\ pc = "except" => (raised # Null /\ HandlerRecords = {}
                         /\ result = Pending)
    /\ pc = "reraise" => (raised # Null /\ Cardinality(HandlerRecords) = 1
                          /\ result = Pending)
    /\ (pc = "done" /\ raised # Null)
        => /\ SurfacesAsUnexpected
           /\ Cardinality(HandlerRecords) = 1
           /\ logs[Len(logs)].level = "exception"
           /\ Len(logs) = IF raised = ConfigError THEN 2 ELSE 1
    /\ (pc = "done" /\ result = OK) => raised = Null

C6_Witness ==
    /\ pc = "done" /\ FP /\ raised = TransportError
    /\ result = SkygearException("", "UnexpectedError")
    /\ Len(logs) = 1

\* C7: in test_forgot_password_email with the master key, once send has
\* chosen its templates: with no override (each is None or empty) both come
\* from the template provider; with a text and/or an html override the
\* supplied strings are the templates and the provider is not consulted.
C7_OverridesReplaceFiles ==
    (TestOp /\ args.access_key_type = "master" /\ text_template # NoTemplate)
    => IF ~Truthy(args.text_template) /\ ~Truthy(args.html_template)
       THEN /\ fetched = {"reset_email_text", "reset_email_html"}
            /\ text_template.kind = "File"
            /\ html_template.kind = "File"
       ELSE /\ fetched = {}
            /\ Truthy(args.text_template)
                => text_template = StringTemplate("reset_email_text",
                                                  args.text_template)
            /\ Truthy(args.html_template)
                => html_template = StringTemplate("reset_email_html",
                                                  args.html_template)

\* C8: with smtp_settings.host None, no get_template call, no template
\* construction, no render and no send_mail call ever happens, and every
\* call of send ends in the configuration error.
C8_UnconfiguredHostFailsFast ==
    smtp_settings.host = None
    => /\ fetched = {}
       /\ text_template = NoTemplate
       /\ html_template = NoTemplate
       /\ rendered = <<>>
       /\ attempts = 0
       /\ outbox = <<>>
       /\ (sendCalls > 0 /\ pc # "send_host") => raised = ConfigError
       /\ (sendCalls > 0 /\ pc = "done")
            => result = SkygearException("mail server is not configured",
                                         "UnexpectedError")

C8_Witness ==
    /\ smtp_settings.host = None /\ sendCalls = 1 /\ pc = "done"
    /\ TestOp /\ args.text_template = "T"
    /\ raised = ConfigError

\* C9: the link of forgot_password is P/reset-password?code=<code>
\* &user_id=<id>&expire_at=<expire_at>, P being url_prefix less one trailing
\* slash if it has one; expire_at is the issue time in whole seconds plus
\* reset_url_lifetime; P is also the url_prefix template parameter; the
\* prefix https://x/ gives a link starting https://x/reset-password?.
C9_ResetLink ==
    (FP /\ template_params # Null)
    => LET prefix == settings.url_prefix
           n == Len(prefix)
           P == IF n > 0 /\ prefix[n] = "/"
                THEN [i \in 1..(n - 1) |-> prefix[i]]
                ELSE prefix
           whole == expire_at - settings.reset_url_lifetime
       IN /\ template_params.link =
                P \o <<"/", "reset-password?code=">> \o template_params.code
                  \o <<"&user_id=", user.id, "&expire_at=">>
                  \o IntToStr(expire_at)
          /\ template_params.url_prefix = P
          /\ template_params.code = generate_code(user, expire_at)
          /\ 2 * whole - now \in {-1, 0, 1}
          /\ prefix = <<"https://x", "/">>
                => SubSeq(template_params.link, 1, 3) =
                        <<"https://x", "/", "reset-password?code=">>

C9_Witness ==
    /\ FP /\ pc = "done" /\ result = OK
    /\ settings.url_prefix = <<"https://x", "/">>
    /\ template_params # Null
    /\ now = 3

\* C10: the connection of forgot_password is closed on every exit of the
\* invocation, and it is open only for the account and profile lookups, not
\* while templates are fetched or the mail is transmitted.
C10_ConnectionScoped ==
    /\ pc \in {"done", "idle"} => ~connOpen
    /\ pc \in {"send_templates", "send_mail"} => ~connOpen

\* C2: with secure_match off, two forgot_password invocations with the same
\* email and the same collaborator behaviour, one finding an account and one
\* finding none, give the caller the same result.
C2_Indistinguishable ==
    (FP /\ pc = "done" /\ ~settings.secure_match /\ last # Null)
    => ((last.email = args.email /\ last.env = env
            /\ last.found # (user # Null))
        => last.result = result)

====
